---- MODULE Spec2Model ----
(***************************************************************************)
(* Model of tf_agents/bandits/agents/examples/v2/                          *)
(* train_eval_per_arm_stationary_linear.py.                                *)
(*                                                                         *)
(* Two specifications:                                                     *)
(*   SpecFn  the oracle functions _all_rewards, optimal_reward and         *)
(*           optimal_action applied to bounded observations;               *)
(*   Spec    the control flow of main(): flag values, the construction     *)
(*           steps, the exceptions they may raise, the trainer call and    *)
(*           the trajectory transformation drop_arm_feature_fn.            *)
(*                                                                         *)
(* Tensors are sequences (1-based in the model); a tensor of shape         *)
(* batch x K x D is a sequence of batch sequences of K sequences of D      *)
(* numbers.  Feature and parameter values are small integers, as the       *)
(* sampling functions of main() produce; on these float32 arithmetic is    *)
(* exact, so a float32 value is represented by the integer it equals.      *)
(***************************************************************************)
EXTENDS Integers, Sequences, FiniteSets, TLC

\* ------------------------------------------------------------------------
\* Bounds of the model
\* ------------------------------------------------------------------------
MaxBatch == 2
MaxArms == 3
MaxDim == 2
\* largest number of feature entries of one observation: batch * (G + K * D)
MaxCells == 6

FeatureValues == {0, 1}
HiddenValues == {-1, 1, 2}

\* ------------------------------------------------------------------------
\* Names of the program
\* ------------------------------------------------------------------------
\* bandit_spec_utils.GLOBAL_FEATURE_KEY / PER_ARM_FEATURE_KEY
GLOBAL_FEATURE_KEY == "global"
PER_ARM_FEATURE_KEY == "per_arm"

VARIABLES
    \* --- SpecFn: the arguments and results of the oracle functions
    observation,          \* [global |-> batch x G, per_arm |-> batch x K x D]
    hidden_param,         \* vector of length G + D
    called,               \* names of the functions that have been applied
    all_rewards_out,      \* result of _all_rewards(observation, hidden_param)
    optimal_reward_out,   \* result of optimal_reward(observation, hidden_param)
    optimal_action_out    \* result of optimal_action(observation, hidden_param)

fnvars == <<observation, hidden_param, called, all_rewards_out,
            optimal_reward_out, optimal_action_out>>

VARIABLES
    \* --- Spec: one run of main()
    argv,                 \* the flags given on the command line ("" = not given)
    FLAGS,                \* the parsed flag values
    HIDDEN_PARAM,         \* the module-level list HIDDEN_PARAM
    pc,                   \* the step main() is about to perform
    local,                \* the local names bound in main()
    exception,            \* the step whose exception left main(), "" if none
    attempts,             \* how many times each step has been started
    networks_built,       \* the network factory calls made, in order
    trainer_calls,        \* the argument lists of the calls of trainer.train
    heap,                 \* the observation dicts alive in the trainer, by id
    collected,            \* contents of its observation dict when collected
    traj_in,              \* last trajectory collected by the trainer
    traj_out              \* the trajectory it trains on

mainvars == <<argv, FLAGS, HIDDEN_PARAM, pc, local, exception, attempts,
              networks_built, trainer_calls, heap, collected, traj_in,
              traj_out>>

vars == <<fnvars, mainvars>>

\* ------------------------------------------------------------------------
\* Tensor primitives used by _all_rewards
\* ------------------------------------------------------------------------
\* tf.cast(hidden_param, dtype=tf.float32): exact on the integers modelled
Cast(v) == [j \in 1..Len(v) |-> v[j]]

\* tf.shape(per_arm_obs)[1]
NumActions(per_arm_obs) == Len(per_arm_obs[1])

\* tf.expand_dims(x, axis=1): batch x G  ->  batch x 1 x G
ExpandDims(x) == [b \in 1..Len(x) |-> <<x[b]>>]

\* one row repeated n times along axis 1
RECURSIVE Repeat(_, _)
Repeat(row, n) == IF n = 0 THEN <<>> ELSE row \o Repeat(row, n - 1)

\* tf.tile(x, [1, n, 1]): batch x 1 x G  ->  batch x n x G
Tile(x, n) == [b \in 1..Len(x) |-> Repeat(x[b], n)]

\* tf.concat([x, y], axis=-1): batch x K x G, batch x K x D -> batch x K x (G+D)
Concat(x, y) ==
    [b \in 1..Len(x) |-> [k \in 1..Len(x[b]) |-> x[b][k] \o y[b][k]]]

\* dot product of two vectors of the same length
RECURSIVE Dot(_, _)
Dot(u, v) ==
    IF Len(u) = 0 THEN 0 ELSE Head(u) * Head(v) + Dot(Tail(u), Tail(v))

\* tf.linalg.matvec(m, v): batch x K x N, N  ->  batch x K
MatVec(m, v) ==
    [b \in 1..Len(m) |-> [k \in 1..Len(m[b]) |-> Dot(m[b][k], v)]]

\* the largest entry of a non-empty row
RECURSIVE RowMax(_)
RowMax(row) ==
    IF Len(row) = 1 THEN row[1]
    ELSE LET m == RowMax(Tail(row))
         IN  IF row[1] >= m THEN row[1] ELSE m

\* the smallest entry of a non-empty row
RECURSIVE RowMin(_)
RowMin(row) ==
    IF Len(row) = 1 THEN row[1]
    ELSE LET m == RowMin(Tail(row))
         IN  IF row[1] <= m THEN row[1] ELSE m

\* 0-based index of the largest entry of a row, the last one among equals
RECURSIVE RowArgMaxLast(_)
RowArgMaxLast(row) ==
    IF Len(row) = 1 THEN 0
    ELSE LET a == RowArgMaxLast(Tail(row))
         IN  IF row[1] > row[a + 2] THEN 0 ELSE a + 1

\* 0-based index of the largest entry of a row, the first one among equals:
\* the value tf.argmax returns for the row
RECURSIVE RowArgMax(_)
RowArgMax(row) ==
    IF Len(row) = 1 THEN 0
    ELSE LET a == RowArgMax(Tail(row))
         IN  IF row[1] >= row[a + 2] THEN 0 ELSE a + 1

\* tf.reduce_min(x, axis=1)
ReduceMin(x) == [b \in 1..Len(x) |-> RowMin(x[b])]

\* tf.reduce_max(x, axis=1): batch x K  ->  batch
ReduceMax(x) == [b \in 1..Len(x) |-> RowMax(x[b])]

\* tf.argmax(x, axis=0): batch x K  ->  K
ArgMaxAxis0(x) ==
    [k \in 1..Len(x[1]) |-> RowArgMax([b \in 1..Len(x) |-> x[b][k]])]

\* tf.argmax(x, axis=1) counting the arms from 1
ArgMaxOneBased(x) == [b \in 1..Len(x) |-> RowArgMax(x[b]) + 1]

\* tf.argmax(x, axis=1, output_type=tf.int32): batch x K  ->  batch
ArgMax(x) == [b \in 1..Len(x) |-> RowArgMax(x[b])]

\* ------------------------------------------------------------------------
\* The oracle functions
\* ------------------------------------------------------------------------
\* _all_rewards with the two operands of tf.concat exchanged
AllRewardsArmFirst(obs, hp) ==
    LET h == Cast(hp)
        global_obs == obs[GLOBAL_FEATURE_KEY]
        per_arm_obs == obs[PER_ARM_FEATURE_KEY]
        num_actions == NumActions(per_arm_obs)
        tiled_global == Tile(ExpandDims(global_obs), num_actions)
        concatenated == Concat(per_arm_obs, tiled_global)
    IN  MatVec(concatenated, h)

_all_rewards(obs, hp) ==
    LET h == Cast(hp)
        global_obs == obs[GLOBAL_FEATURE_KEY]
        per_arm_obs == obs[PER_ARM_FEATURE_KEY]
        num_actions == NumActions(per_arm_obs)
        tiled_global == Tile(ExpandDims(global_obs), num_actions)
        concatenated == Concat(tiled_global, per_arm_obs)
    IN  MatVec(concatenated, h)

optimal_reward(obs, hp) == ReduceMax(_all_rewards(obs, hp))

optimal_action(obs, hp) == ArgMax(_all_rewards(obs, hp))

\* ------------------------------------------------------------------------
\* Module-level constants and flag definitions
\* ------------------------------------------------------------------------
BATCH_SIZE == 16
NUM_ACTIONS == 7
HiddenParamInit == <<0, 1, 2, 3, 4, 5, 6, 7, 8>>
TRAINING_LOOPS == 2000
STEPS_PER_LOOP == 2

\* length of the vector _global_context_sampling_fn returns
GlobalContextDim == 4
\* length of the vector _arm_context_sampling_fn returns
ArmContextDim == 5

\* flags.DEFINE_enum('network', 'commontower', ['commontower', 'dotproduct'])
NetworkEnum == {"commontower", "dotproduct"}
NetworkDefault == "commontower"
\* flags.DEFINE_bool('drop_arm_obs', False, ...)
DropArmObsDefault == FALSE

\* the command lines absl accepts: each flag absent ("") or a permitted value
ArgvValues ==
    [network : {""} \cup NetworkEnum, drop_arm_obs : {"", "true", "false"}]

ParseFlags(a) ==
    [network |-> IF a.network = "" THEN NetworkDefault ELSE a.network,
     drop_arm_obs |-> IF a.drop_arm_obs = "" THEN DropArmObsDefault
                      ELSE a.drop_arm_obs = "true"]

\* ------------------------------------------------------------------------
\* Values of main()'s local names
\* ------------------------------------------------------------------------
Unbound == [kind |-> "unbound"]
None == [kind |-> "None"]
DropArmFeatureFnRef == [kind |-> "function", name |-> "drop_arm_feature_fn"]

LocalNames ==
    {"reward_fn", "env", "environment", "obs_spec", "network",
     "drop_arm_feature_fn", "agent", "optimal_reward_fn", "optimal_action_fn",
     "regret_metric", "suboptimal_arms_metric"}

\* the statements of main(), in program order
StepOrder ==
    <<"enable_v2", "reward_fn", "env", "environment", "network", "drop_fn",
      "agent", "partials", "regret_metric", "suboptimal_arms_metric", "train",
      "done">>

Steps == {StepOrder[i] : i \in 1..Len(StepOrder)}

IndexOf(step) == CHOOSE i \in 1..Len(StepOrder) : StepOrder[i] = step

\* the statement that follows `step`
NextPc(step) == StepOrder[IndexOf(step) + 1]

Bound(name) == local[name] # Unbound

\* ------------------------------------------------------------------------
\* drop_arm_feature_fn: trajectories are named tuples whose observation field
\* refers to a dict object; h maps the ids of the dict objects to their
\* contents
\* ------------------------------------------------------------------------
\* del d[key]
DelKey(d, key) == [k \in (DOMAIN d) \ {key} |-> d[k]]

\* copy.deepcopy(traj): a new tuple that refers to a new dict of equal contents
DeepCopy(h, traj) ==
    [heap |-> Append(h, h[traj.observation]),
     traj |-> [traj EXCEPT !.observation = Len(h) + 1]]

\* copy.copy(traj): a new tuple that refers to the same dict
ShallowCopy(h, traj) == [heap |-> h, traj |-> traj]

DropArmFeatureShallow(h, traj) ==
    LET c == ShallowCopy(h, traj)
        transformed_traj == c.traj
        o == transformed_traj.observation
    IN  [heap |-> [c.heap EXCEPT ![o] = DelKey(@, PER_ARM_FEATURE_KEY)],
         traj |-> transformed_traj]

drop_arm_feature_fn(h, traj) ==
    LET c == DeepCopy(h, traj)
        transformed_traj == c.traj
        o == transformed_traj.observation
    IN  [heap |-> [c.heap EXCEPT ![o] = DelKey(@, PER_ARM_FEATURE_KEY)],
         traj |-> transformed_traj]

\* ------------------------------------------------------------------------
\* Spec: main()
\* ------------------------------------------------------------------------
NoTrajectory == [observation |-> 0]

InitMainWith(a) ==
    /\ argv = a
    /\ FLAGS = ParseFlags(a)
    /\ HIDDEN_PARAM = HiddenParamInit
    /\ pc = "enable_v2"
    /\ local = [n \in LocalNames |-> Unbound]
    /\ exception = ""
    /\ attempts = [s \in Steps |-> 0]
    /\ networks_built = <<>>
    /\ trainer_calls = <<>>
    /\ heap = <<>>
    /\ collected = <<>>
    /\ traj_in = NoTrajectory
    /\ traj_out = NoTrajectory

IdleMain == InitMainWith([network |-> "", drop_arm_obs |-> ""])

IdleFn ==
    /\ observation = [global |-> <<>>, per_arm |-> <<>>]
    /\ hidden_param = <<>>
    /\ called = {}
    /\ all_rewards_out = <<>>
    /\ optimal_reward_out = <<>>
    /\ optimal_action_out = <<>>

Init ==
    /\ \E a \in ArgvValues : InitMainWith(a)
    /\ IdleFn

\* main() starts the statement `step`
Start(step) ==
    /\ pc = step
    /\ attempts' = [attempts EXCEPT ![step] = @ + 1]

\* the statement completed: control moves to the next statement
Proceed(step) ==
    /\ pc' = NextPc(step)
    /\ UNCHANGED exception

\* an exception raised in `step` is caught and main() carries on
Swallow(step) ==
    /\ pc' = NextPc(step)
    /\ exception' = step
    /\ UNCHANGED <<local, networks_built, trainer_calls>>

\* an exception raised in `step` leaves main(): no handler encloses it
Propagate(step) ==
    /\ pc' = "raised"
    /\ exception' = step
    /\ UNCHANGED <<local, networks_built, trainer_calls>>

frame == <<argv, FLAGS, HIDDEN_PARAM, heap, collected, traj_in, traj_out>>

\* tf.compat.v1.enable_v2_behavior()
EnableV2 ==
    /\ Start("enable_v2")
    /\ \/ Proceed("enable_v2") /\ UNCHANGED <<local, networks_built, trainer_calls>>
       \/ Propagate("enable_v2")
    /\ UNCHANGED frame

\* reward_fn = LinearNormalReward(HIDDEN_PARAM), bound to another vector
ConstructRewardFnReversed ==
    /\ Start("reward_fn")
    /\ local' = [local EXCEPT !.reward_fn =
                    [kind |-> "LinearNormalReward",
                     theta |-> [i \in 1..Len(HIDDEN_PARAM) |->
                                   HIDDEN_PARAM[Len(HIDDEN_PARAM) + 1 - i]]]]
    /\ Proceed("reward_fn")
    /\ UNCHANGED <<networks_built, trainer_calls, frame>>

\* class and sampling function definitions; reward_fn = LinearNormalReward(HIDDEN_PARAM)
ConstructRewardFn ==
    /\ Start("reward_fn")
    /\ local' = [local EXCEPT !.reward_fn =
                    [kind |-> "LinearNormalReward", theta |-> HIDDEN_PARAM]]
    /\ Proceed("reward_fn")
    /\ UNCHANGED <<networks_built, trainer_calls, frame>>

\* env = sspe.StationaryStochasticPerArmPyEnvironment(...)
ConstructEnv ==
    /\ Start("env")
    /\ \/ /\ local' = [local EXCEPT !.env =
                          [kind |-> "StationaryStochasticPerArmPyEnvironment",
                           global_dim |-> GlobalContextDim,
                           arm_dim |-> ArmContextDim,
                           num_actions |-> NUM_ACTIONS,
                           reward_fn |-> local.reward_fn,
                           batch_size |-> BATCH_SIZE]]
          /\ Proceed("env")
          /\ UNCHANGED <<networks_built, trainer_calls>>
       \/ Propagate("env")
    /\ UNCHANGED frame

\* environment = tf_py_environment.TFPyEnvironment(env)
WrapEnvironment ==
    /\ Start("environment")
    /\ \/ /\ local' = [local EXCEPT !.environment =
                          [kind |-> "TFPyEnvironment", env |-> local.env]]
          /\ Proceed("environment")
          /\ UNCHANGED <<networks_built, trainer_calls>>
       \/ Propagate("environment")
    /\ UNCHANGED frame

ObsSpec == [kind |-> "observation_spec", of |-> local.environment]

\* the if/elif on FLAGS.network with the second name misspelt
NetworkFactoryMisspelt(flag) ==
    IF flag = "commontower"
    THEN "create_feed_forward_common_tower_network"
    ELSE IF flag = "dot_product"
         THEN "create_feed_forward_dot_product_network"
         ELSE ""

\* the factory the if/elif on FLAGS.network calls, "" when no branch is taken
NetworkFactory(flag) ==
    IF flag = "commontower"
    THEN "create_feed_forward_common_tower_network"
    ELSE IF flag = "dotproduct"
         THEN "create_feed_forward_dot_product_network"
         ELSE ""

\* the layer-size arguments of the two factory calls
NetworkLayers(factory) ==
    IF factory = "create_feed_forward_common_tower_network"
    THEN <<<<4, 3>>, <<3, 4>>, <<4, 2>>>>
    ELSE <<<<4, 3, 6>>, <<3, 4, 6>>>>

\* obs_spec = environment.observation_spec(); if/elif on FLAGS.network
SelectNetwork ==
    /\ Start("network")
    /\ \/ LET f == NetworkFactory(FLAGS.network)
          IN  /\ local' = [local EXCEPT
                              !.obs_spec = ObsSpec,
                              !.network = IF f = "" THEN @
                                          ELSE [kind |-> "network",
                                                factory |-> f,
                                                obs_spec |-> ObsSpec,
                                                layers |-> NetworkLayers(f)]]
              /\ networks_built' = IF f = "" THEN networks_built
                                   ELSE Append(networks_built, f)
              /\ Proceed("network")
              /\ UNCHANGED trainer_calls
       \/ Propagate("network")
    /\ UNCHANGED frame

\* the value bound to drop_arm_feature_fn by the if/else on FLAGS.drop_arm_obs
DropFnValue(flag) == IF flag THEN DropArmFeatureFnRef ELSE None

\* if FLAGS.drop_arm_obs: def drop_arm_feature_fn ... else: ... = None
DefineDropFn ==
    /\ Start("drop_fn")
    /\ local' = [local EXCEPT
                    !.drop_arm_feature_fn = DropFnValue(FLAGS.drop_arm_obs)]
    /\ Proceed("drop_fn")
    /\ UNCHANGED <<networks_built, trainer_calls, frame>>

\* the keyword arguments of the agent constructor
AgentArgs ==
    [kind |-> "NeuralEpsilonGreedyAgent",
     environment |-> local.environment,
     reward_network |-> local.network,
     accepts_per_arm_features |-> TRUE,
     training_data_spec_transformation_fn |-> local.drop_arm_feature_fn,
     emit_policy_info |-> "predicted_rewards_mean"]

\* agent = neural_epsilon_greedy_agent.NeuralEpsilonGreedyAgent(...);
\* reading the name network while it is unbound raises UnboundLocalError
ConstructAgent ==
    /\ Start("agent")
    /\ \/ /\ Bound("network")
          /\ local' = [local EXCEPT !.agent = AgentArgs]
          /\ Proceed("agent")
          /\ UNCHANGED <<networks_built, trainer_calls>>
       \/ Propagate("agent")
    /\ UNCHANGED frame

\* functools.partial(func, hidden_param=hp)
Partial(func, hp) == [kind |-> "partial", func |-> func, hidden_param |-> hp]

\* optimal_reward_fn = ...; optimal_action_fn = ...
BindPartials ==
    /\ Start("partials")
    /\ local' = [local EXCEPT
                    !.optimal_reward_fn = Partial("optimal_reward", HIDDEN_PARAM),
                    !.optimal_action_fn = Partial("optimal_action", HIDDEN_PARAM)]
    /\ Proceed("partials")
    /\ UNCHANGED <<networks_built, trainer_calls, frame>>

\* regret_metric = tf_bandit_metrics.RegretMetric(optimal_reward_fn)
ConstructRegretMetric ==
    /\ Start("regret_metric")
    /\ \/ /\ local' = [local EXCEPT !.regret_metric =
                          [kind |-> "RegretMetric",
                           baseline_reward_fn |-> local.optimal_reward_fn]]
          /\ Proceed("regret_metric")
          /\ UNCHANGED <<networks_built, trainer_calls>>
       \/ Propagate("regret_metric")
    /\ UNCHANGED frame

\* suboptimal_arms_metric = tf_bandit_metrics.SuboptimalArmsMetric(optimal_action_fn)
ConstructSuboptimalArmsMetric ==
    /\ Start("suboptimal_arms_metric")
    /\ \/ /\ local' = [local EXCEPT !.suboptimal_arms_metric =
                          [kind |-> "SuboptimalArmsMetric",
                           baseline_action_fn |-> local.optimal_action_fn]]
          /\ Proceed("suboptimal_arms_metric")
          /\ UNCHANGED <<networks_built, trainer_calls>>
       \/ Propagate("suboptimal_arms_metric")
    /\ UNCHANGED frame

\* the keyword arguments of trainer.train
TrainerArgs ==
    [agent |-> local.agent,
     environment |-> local.environment,
     training_loops |-> TRAINING_LOOPS,
     steps_per_loop |-> STEPS_PER_LOOP,
     additional_metrics |-> <<local.regret_metric,
                              local.suboptimal_arms_metric>>,
     training_data_spec_transformation_fn |-> local.drop_arm_feature_fn]

\* trainer.train(...) is entered
TrainerCall ==
    /\ Start("train")
    /\ trainer_calls' = Append(trainer_calls, TrainerArgs)
    /\ pc' = "in_train"
    /\ UNCHANGED <<local, exception, networks_built, frame>>

\* the trajectories the environment and the agent's policy produce: an
\* observation dict holding both feature keys, an action and a reward
GlobalSamples == {"g1", "g2"}
PerArmSamples == {"a1", "a2"}
ActionSamples == {0, NUM_ACTIONS - 1}
RewardSamples == {0, 1}

\* inside trainer.train: a trajectory is collected and, when a transformation
\* was passed, the transformation is applied to it before training
TrainerStep ==
    /\ pc = "in_train"
    /\ \E g \in GlobalSamples, a \in PerArmSamples,
          act \in ActionSamples, r \in RewardSamples :
          LET h0 == <<[k \in {GLOBAL_FEATURE_KEY, PER_ARM_FEATURE_KEY} |->
                          IF k = GLOBAL_FEATURE_KEY THEN g ELSE a]>>
              t0 == [observation |-> 1, action |-> act, reward |-> r]
              fn == trainer_calls[Len(trainer_calls)]
                        .training_data_spec_transformation_fn
              res == IF fn = None THEN [heap |-> h0, traj |-> t0]
                     ELSE drop_arm_feature_fn(h0, t0)
          IN  /\ collected' = h0[1]
              /\ traj_in' = t0
              /\ traj_out' = res.traj
              /\ heap' = res.heap
    /\ UNCHANGED <<argv, FLAGS, HIDDEN_PARAM, pc, local, exception, attempts,
                   networks_built, trainer_calls>>

\* trainer.train returns and main() calls it once more
TrainerReturnAgain ==
    /\ pc = "in_train"
    /\ pc' = "train"
    /\ UNCHANGED <<local, exception, attempts, networks_built, trainer_calls,
                   frame>>

\* trainer.train returns: main() has no statement left
TrainerReturn ==
    /\ pc = "in_train"
    /\ Proceed("train")
    /\ UNCHANGED <<local, attempts, networks_built, trainer_calls, frame>>

\* trainer.train raises
TrainerRaise ==
    /\ pc = "in_train"
    /\ Propagate("train")
    /\ UNCHANGED <<attempts, frame>>

Next ==
    \/ EnableV2 /\ UNCHANGED fnvars
    \/ ConstructRewardFn /\ UNCHANGED fnvars
    \/ ConstructEnv /\ UNCHANGED fnvars
    \/ WrapEnvironment /\ UNCHANGED fnvars
    \/ SelectNetwork /\ UNCHANGED fnvars
    \/ DefineDropFn /\ UNCHANGED fnvars
    \/ ConstructAgent /\ UNCHANGED fnvars
    \/ BindPartials /\ UNCHANGED fnvars
    \/ ConstructRegretMetric /\ UNCHANGED fnvars
    \/ ConstructSuboptimalArmsMetric /\ UNCHANGED fnvars
    \/ TrainerCall /\ UNCHANGED fnvars
    \/ TrainerStep /\ UNCHANGED fnvars
    \/ TrainerReturn /\ UNCHANGED fnvars
    \/ TrainerRaise /\ UNCHANGED fnvars

Spec == Init /\ [][Next]_vars

\* ------------------------------------------------------------------------
\* SpecFn: the functions applied to every bounded observation
\* ------------------------------------------------------------------------
Vectors(n, S) == [1..n -> S]

\* batch size B, arm count K, global dimension G, per-arm dimension D
Shapes ==
    {s \in (1..MaxBatch) \X (1..MaxArms) \X (1..MaxDim) \X (1..MaxDim) :
        s[1] * (s[3] + s[2] * s[4]) <= MaxCells}

Observations(s) ==
    [global : Vectors(s[1], Vectors(s[3], FeatureValues)),
     per_arm : Vectors(s[1], Vectors(s[2], Vectors(s[4], FeatureValues)))]

FnNames == {"_all_rewards", "optimal_reward", "optimal_action"}

InitFn ==
    /\ \E s \in Shapes :
          /\ observation \in Observations(s)
          /\ hidden_param \in Vectors(s[3] + s[4], HiddenValues)
    /\ called = {}
    /\ all_rewards_out = <<>>
    /\ optimal_reward_out = <<>>
    /\ optimal_action_out = <<>>
    /\ IdleMain

CallAllRewards ==
    /\ "_all_rewards" \notin called
    /\ called' = called \cup {"_all_rewards"}
    /\ all_rewards_out' = _all_rewards(observation, hidden_param)
    /\ UNCHANGED <<observation, hidden_param, optimal_reward_out,
                   optimal_action_out>>

CallOptimalReward ==
    /\ "optimal_reward" \notin called
    /\ called' = called \cup {"optimal_reward"}
    /\ optimal_reward_out' = optimal_reward(observation, hidden_param)
    /\ UNCHANGED <<observation, hidden_param, all_rewards_out,
                   optimal_action_out>>

CallOptimalAction ==
    /\ "optimal_action" \notin called
    /\ called' = called \cup {"optimal_action"}
    /\ optimal_action_out' = optimal_action(observation, hidden_param)
    /\ UNCHANGED <<observation, hidden_param, all_rewards_out,
                   optimal_reward_out>>

NextFn ==
    \/ CallAllRewards /\ UNCHANGED mainvars
    \/ CallOptimalReward /\ UNCHANGED mainvars
    \/ CallOptimalAction /\ UNCHANGED mainvars

SpecFn == InitFn /\ [][NextFn]_vars

\* ------------------------------------------------------------------------
\* Properties of the oracle functions (checked under SpecFn)
\* ------------------------------------------------------------------------
BatchSize == Len(observation[GLOBAL_FEATURE_KEY])
GlobalDim == Len(observation[GLOBAL_FEATURE_KEY][1])
ArmCount == Len(observation[PER_ARM_FEATURE_KEY][1])
ArmDim == Len(observation[PER_ARM_FEATURE_KEY][1][1])

\* u[1] * h[offset + 1] + ... + u[n] * h[offset + n]
RECURSIVE WeightedSum(_, _, _, _)
WeightedSum(u, h, offset, n) ==
    IF n = 0 THEN 0
    ELSE u[n] * h[offset + n] + WeightedSum(u, h, offset, n - 1)

\* the reward of arm i (counted from 1) of batch element b: the hidden
\* parameter applied to the global features followed by the arm's features
ExpectedReward(b, i) ==
    WeightedSum(observation[GLOBAL_FEATURE_KEY][b], hidden_param, 0, GlobalDim)
    + WeightedSum(observation[PER_ARM_FEATURE_KEY][b][i], hidden_param,
                  GlobalDim, ArmDim)

\* the observation that holds batch element b alone
BatchElement(b) ==
    [global |-> <<observation[GLOBAL_FEATURE_KEY][b]>>,
     per_arm |-> <<observation[PER_ARM_FEATURE_KEY][b]>>]

\* C1: _all_rewards returns a batch x K array whose entry [b][i] is the dot
\* product of the hidden parameter with the global features of b followed by
\* the features of arm i of b.
AllRewardsIsLinear ==
    "_all_rewards" \in called =>
        /\ Len(all_rewards_out) = BatchSize
        /\ \A b \in 1..BatchSize :
              /\ Len(all_rewards_out[b]) = ArmCount
              /\ \A i \in 1..ArmCount :
                    all_rewards_out[b][i] = ExpectedReward(b, i)

\* C1 witness: global [1,0], arms [[1,0],[0,1]], hidden parameter [1,1,2,1]
\* give the rewards [3,2].
AllRewardsScenario ==
    /\ "_all_rewards" \in called
    /\ observation = [global |-> << <<1, 0>> >>,
                      per_arm |-> << << <<1, 0>>, <<0, 1>> >> >>]
    /\ hidden_param = <<1, 1, 2, 1>>
    /\ all_rewards_out = << <<3, 2>> >>

\* C2: optimal_reward returns, for each batch element, a value that is at
\* least every arm's reward and is the reward of some arm.
OptimalRewardIsMax ==
    "optimal_reward" \in called =>
        /\ Len(optimal_reward_out) = BatchSize
        /\ \A b \in 1..BatchSize :
              /\ \A i \in 1..ArmCount :
                    optimal_reward_out[b] >= ExpectedReward(b, i)
              /\ \E i \in 1..ArmCount :
                    optimal_reward_out[b] = ExpectedReward(b, i)

\* C2 witness: a batch of two with different maxima, the first element's
\* maximum negative and not the first arm's reward.
OptimalRewardNegativeMax ==
    /\ "optimal_reward" \in called
    /\ BatchSize = 2
    /\ ArmCount >= 2
    /\ optimal_reward_out[1] < 0
    /\ ExpectedReward(1, 1) < optimal_reward_out[1]
    /\ optimal_reward_out[2] > optimal_reward_out[1]

\* C3: optimal_action returns, for each batch element, the index (from 0) of
\* an arm of maximal reward, the lowest one when several arms share it.
OptimalActionIsFirstArgMax ==
    "optimal_action" \in called =>
        /\ Len(optimal_action_out) = BatchSize
        /\ \A b \in 1..BatchSize :
              /\ optimal_action_out[b] \in 0..(ArmCount - 1)
              /\ \A i \in 1..ArmCount :
                    /\ ExpectedReward(b, optimal_action_out[b] + 1)
                          >= ExpectedReward(b, i)
                    /\ ExpectedReward(b, i)
                          = ExpectedReward(b, optimal_action_out[b] + 1)
                       => optimal_action_out[b] + 1 <= i

\* C3 witness: global [1,0], arms [[1,0],[0,1]], hidden parameter [1,1,1,1]:
\* both arms have reward 2 and the action is 0.
OptimalActionTieScenario ==
    /\ "optimal_action" \in called
    /\ observation = [global |-> << <<1, 0>> >>,
                      per_arm |-> << << <<1, 0>>, <<0, 1>> >> >>]
    /\ hidden_param = <<1, 1, 1, 1>>
    /\ ExpectedReward(1, 1) = 2
    /\ ExpectedReward(1, 2) = 2
    /\ optimal_action_out = <<0>>

\* C4: optimal_reward and optimal_action return one value per batch element,
\* and the value for batch element b is the one the function returns for the
\* observation that holds b alone.
BatchElementsIndependent ==
    /\ "optimal_reward" \in called =>
          /\ Len(optimal_reward_out) = BatchSize
          /\ \A b \in 1..BatchSize :
                optimal_reward_out[b]
                   = optimal_reward(BatchElement(b), hidden_param)[1]
    /\ "optimal_action" \in called =>
          /\ Len(optimal_action_out) = BatchSize
          /\ \A b \in 1..BatchSize :
                optimal_action_out[b]
                   = optimal_action(BatchElement(b), hidden_param)[1]

\* C4 witness: a batch of two elements with different optimal rewards and
\* different optimal actions, both functions applied.
BatchOfTwoDiffers ==
    /\ {"optimal_reward", "optimal_action"} \subseteq called
    /\ BatchSize = 2
    /\ optimal_reward_out[1] # optimal_reward_out[2]
    /\ optimal_action_out[1] # optimal_action_out[2]

\* C9: the index optimal_action returns for a batch element is a valid arm
\* index and that arm's reward is the value optimal_reward returns.
ActionAttainsOptimalReward ==
    {"optimal_reward", "optimal_action"} \subseteq called =>
        \A b \in 1..BatchSize :
            /\ 0 <= optimal_action_out[b]
            /\ optimal_action_out[b] < ArmCount
            /\ ExpectedReward(b, optimal_action_out[b] + 1)
                  = optimal_reward_out[b]

\* C9 witness: both functions applied to three arms of which the last alone
\* has the largest reward.
LastArmOptimal ==
    /\ {"optimal_reward", "optimal_action"} \subseteq called
    /\ ArmCount = 3
    /\ optimal_action_out[1] = 2
    /\ ExpectedReward(1, 3) = optimal_reward_out[1]
    /\ ExpectedReward(1, 1) < optimal_reward_out[1]
    /\ ExpectedReward(1, 2) < optimal_reward_out[1]

\* ------------------------------------------------------------------------
\* Properties of main() (checked under Spec)
\* ------------------------------------------------------------------------
\* the step the exception of main() came from, seen from the control state
Raising(at) == IF at = "in_train" THEN "train" ELSE at

\* C5: the transformation bound for drop_arm_obs is the dropping function
\* when the flag is true and None when it is false, the same value reaches
\* the agent constructor and the trainer, and the dropping function returns a
\* trajectory whose observation lacks the per-arm key and otherwise equals its
\* argument, which still holds its per-arm features.
DropArmObsContract ==
    /\ Bound("drop_arm_feature_fn") =>
          local.drop_arm_feature_fn
             = (IF FLAGS.drop_arm_obs THEN DropArmFeatureFnRef ELSE None)
    /\ Bound("agent") =>
          local.agent.training_data_spec_transformation_fn
             = local.drop_arm_feature_fn
    /\ \A c \in 1..Len(trainer_calls) :
          /\ trainer_calls[c].training_data_spec_transformation_fn
                = local.drop_arm_feature_fn
          /\ trainer_calls[c].agent.training_data_spec_transformation_fn
                = local.drop_arm_feature_fn
    /\ traj_in # NoTrajectory =>
          /\ heap[traj_in.observation] = collected
          /\ PER_ARM_FEATURE_KEY \in DOMAIN heap[traj_in.observation]
          /\ traj_out.action = traj_in.action
          /\ traj_out.reward = traj_in.reward
          /\ IF FLAGS.drop_arm_obs
             THEN /\ PER_ARM_FEATURE_KEY \notin DOMAIN heap[traj_out.observation]
                  /\ DOMAIN heap[traj_out.observation]
                        = (DOMAIN collected) \ {PER_ARM_FEATURE_KEY}
                  /\ \A k \in DOMAIN heap[traj_out.observation] :
                        heap[traj_out.observation][k] = collected[k]
             ELSE /\ traj_out = traj_in
                  /\ heap[traj_out.observation] = collected

\* C5 witness: with drop_arm_obs set the trainer has transformed a trajectory.
ArmFeaturesDropped ==
    /\ FLAGS.drop_arm_obs
    /\ traj_in # NoTrajectory
    /\ traj_out # traj_in
    /\ DOMAIN heap[traj_out.observation] = {GLOBAL_FEATURE_KEY}
    /\ DOMAIN heap[traj_in.observation]
          = {GLOBAL_FEATURE_KEY, PER_ARM_FEATURE_KEY}

OrderOfConstruction ==
    /\ Len(trainer_calls) <= 1
    /\ attempts["train"] <= 1
    /\ Bound("environment") => Bound("env")
    /\ Bound("network") => Bound("environment")
    /\ Bound("agent") => Bound("network")
    /\ Bound("regret_metric") => Bound("agent")
    /\ Bound("suboptimal_arms_metric") => Bound("regret_metric")
    /\ \A c \in 1..Len(trainer_calls) :
          /\ Bound("env") /\ Bound("environment") /\ Bound("network")
          /\ Bound("agent") /\ Bound("regret_metric")
          /\ Bound("suboptimal_arms_metric")
          /\ trainer_calls[c].environment = local.environment
          /\ trainer_calls[c].agent = local.agent
          /\ trainer_calls[c].additional_metrics
                = <<local.regret_metric, local.suboptimal_arms_metric>>

\* C6: the trainer is called at most once, only after the environment, the
\* network, the agent and both metrics have been constructed in this order,
\* and main() performs no step after the trainer has returned.
TrainerCalledLastAndOnce ==
    /\ []OrderOfConstruction
    /\ [][pc = "done" => UNCHANGED mainvars]_vars

\* C6 witness: the trainer has returned.
TrainerReturned ==
    /\ pc = "done"
    /\ Len(trainer_calls) = 1
    /\ trainer_calls[1].additional_metrics[1].kind = "RegretMetric"
    /\ trainer_calls[1].additional_metrics[2].kind = "SuboptimalArmsMetric"

\* the factory the network flag given on the command line stands for
FactoryOfArgv ==
    IF argv.network = "dotproduct"
    THEN "create_feed_forward_dot_product_network"
    ELSE "create_feed_forward_common_tower_network"

\* C7: once the network statement has completed, exactly one network has been
\* built, the common-tower one for 'commontower' (also when the flag is not
\* given) and the dot-product one for 'dotproduct', and the agent is
\* constructed with that network.
OneNetworkPerFlagValue ==
    /\ (pc \in {"drop_fn", "agent"} \/ Bound("agent")) =>
          /\ Bound("network")
          /\ networks_built = <<FactoryOfArgv>>
          /\ local.network.factory = FactoryOfArgv
    /\ Bound("agent") => local.agent.reward_network = local.network
    /\ Len(networks_built) <= 1

\* C7 witness: the agent constructed with the dot-product network.
AgentWithDotProduct ==
    /\ argv.network = "dotproduct"
    /\ Bound("agent")
    /\ local.agent.reward_network.factory
          = "create_feed_forward_dot_product_network"

NoLaterStep ==
    /\ exception # "" => pc = "raised"
    /\ pc = "raised" => exception \in Steps \ {"done"}
    /\ \A s \in Steps : attempts[s] <= 1
    /\ pc = "raised" =>
          \A s \in Steps :
              IndexOf(s) > IndexOf(exception) => attempts[s] = 0
    /\ (pc = "raised" /\ exception # "train") => trainer_calls = <<>>

\* C8: an exception raised by a step of main() ends main() with that
\* exception: no later step is started, the trainer is not called after a
\* failed setup step, no step is started twice and nothing happens after.
NoLocalRecovery ==
    /\ []NoLaterStep
    /\ [][pc = "raised" => UNCHANGED mainvars]_vars
    /\ [][(pc # "raised" /\ pc' = "raised") => exception' = Raising(pc)]_vars

\* C8 witness: the agent constructor raised.
AgentConstructionRaised ==
    /\ pc = "raised"
    /\ exception = "agent"
    /\ Bound("network")
    /\ ~Bound("agent")
    /\ attempts["agent"] = 1

OneHiddenParam ==
    /\ HIDDEN_PARAM = HiddenParamInit
    /\ Len(HIDDEN_PARAM) = GlobalContextDim + ArmContextDim
    /\ Len(HIDDEN_PARAM) = 9
    /\ Bound("reward_fn") => local.reward_fn.theta = HIDDEN_PARAM
    /\ Bound("env") =>
          /\ local.env.reward_fn.theta = HIDDEN_PARAM
          /\ Len(local.env.reward_fn.theta)
                = local.env.global_dim + local.env.arm_dim
    /\ Bound("regret_metric") =>
          local.regret_metric.baseline_reward_fn
             = Partial("optimal_reward", HIDDEN_PARAM)
    /\ Bound("suboptimal_arms_metric") =>
          local.suboptimal_arms_metric.baseline_action_fn
             = Partial("optimal_action", HIDDEN_PARAM)

\* C10: the environment's reward function and the two metric callbacks hold
\* the one vector HIDDEN_PARAM, which is never modified and whose length 9 is
\* the global context dimension 4 plus the per-arm context dimension 5.
HiddenParamShared ==
    /\ []OneHiddenParam
    /\ [][HIDDEN_PARAM' = HIDDEN_PARAM]_vars

\* C10 witness: the trainer runs with the environment and both metrics built.
OracleAndEnvironmentBuilt ==
    /\ pc = "in_train"
    /\ local.env.reward_fn.theta = <<0, 1, 2, 3, 4, 5, 6, 7, 8>>
    /\ local.regret_metric.baseline_reward_fn.hidden_param
          = local.env.reward_fn.theta
    /\ local.suboptimal_arms_metric.baseline_action_fn.hidden_param
          = local.env.reward_fn.theta

====
